---- MODULE Spec2Model ----
(***************************************************************************)
(* A model of the OpenCellID cleaning pipeline (DataProcessor), its GUI    *)
(* entry point (Application.on_new_file_drop), the snapshot loader         *)
(* (FileManager) and the snapshot comparison                               *)
(* (HeatmapGenerator.generate_difference_heatmap).                         *)
(*                                                                         *)
(* A data frame is [columns, index, rows]: the column labels, the row      *)
(* labels and the rows, each row a tuple of values addressed by the        *)
(* position of its column label.  Latitudes and longitudes are integers    *)
(* in thousandths of a degree (48.061 is 48061).  A csv file is            *)
(* [exists, ok, lines]: whether it is there, whether it can be read and    *)
(* parsed, and its lines as tuples of values; every line of a file has     *)
(* the same number of fields.  The                                         *)
(* values of a raw line are numbers: the radio category is given by its    *)
(* number (GSM is 1), a missing value is NaN.                              *)
(***************************************************************************)
EXTENDS Integers, Sequences, FiniteSets, TLC

VARIABLES
    pc,             \* position of the running handler
    source,         \* which file was dropped: "raw" or "final_dataset.csv"
    src_file,       \* the content of the dropped file
    selected_mnc,   \* Application.selected_mnc.get(): what the dropdown shows
    region,         \* on_new_file_drop: region (selected_region.get())
    region_bounds,  \* DataProcessor.region_bounds
    mnc,            \* DataProcessor.mnc
    provider,       \* DataProcessor.provider: the object it was given
    df,             \* the frame read_csv gave, with the header assigned
    stages,         \* the stages that ran, with what each one handed on
    load_failed,    \* read_csv raised and the except branch ran
    raised,         \* the exception that left the handler uncaught
    returned,       \* what load_and_clean_data returned
    written,        \* the files written by the running handler, in order
    fs_final,       \* the file final_dataset.csv in the working directory
    d_new,          \* generate_difference_heatmap: new_df as passed
    d_old,          \* generate_difference_heatmap: old_df as passed
    new_data        \* generate_difference_heatmap: new_data

vars == <<pc, source, src_file, selected_mnc, region, region_bounds, mnc,
          provider, df,
          stages, load_failed, raised, returned, written, fs_final,
          d_new, d_old, new_data>>

-----------------------------------------------------------------------------
(* Bounds of the model. *)

\* the longest raw file dropped (lines), beside ScenarioFile
MaxRows == 3
\* the longest data frame handed to generate_difference_heatmap
MaxDiffRows == 2

-----------------------------------------------------------------------------
(* Values. *)

\* a missing value (pandas NaN), as DataFrame.dropna sees it
NaN == -1

None == [columns |-> <<>>, index |-> <<>>, rows |-> <<>>, isNone |-> TRUE]

\* no object (the DataProcessor is not constructed)
NoObject == [object |-> "none", attribute |-> ""]

\* the StringVar object held by Application.selected_mnc: the object itself,
\* not the string it holds; its get() is the variable selected_mnc
StringVarSelectedMnc == [object |-> "StringVar", attribute |-> "selected_mnc"]

NoError == [type |-> "none", msg |-> <<>>]

NoFile == [exists |-> FALSE, ok |-> FALSE, lines |-> <<>>]

NoBounds == [lat_min |-> 0, lat_max |-> 0, lon_min |-> 0, lon_max |-> 0]

Range(s) == {s[i] : i \in DOMAIN s}

\* the position of label c among the column labels of d (d[c] in pandas)
Col(d, c) == CHOOSE i \in DOMAIN d.columns : d.columns[i] = c

Frame(columns, index, rows) ==
    [columns |-> columns, index |-> index, rows |-> rows, isNone |-> FALSE]

\* the positions from i on where the boolean series keep is true, in order
RECURSIVE Mask(_, _)
Mask(keep, i) ==
    IF i > Len(keep) THEN <<>>
    ELSE (IF keep[i] THEN <<i>> ELSE <<>>) \o Mask(keep, i + 1)

\* d restricted to the row positions ks, labels kept (df[mask])
Take(d, ks) ==
    Frame(d.columns,
          [k \in DOMAIN ks |-> d.index[ks[k]]],
          [k \in DOMAIN ks |-> d.rows[ks[k]]])

-----------------------------------------------------------------------------
(* DataProcessor: configuration. *)

RegionNames == <<"München", "Berlin", "Hamburg">>

REGION_BOUNDS ==
    ("München" :> [lat_min |-> 48061, lat_max |-> 48248,
                   lon_min |-> 11360, lon_max |-> 11722]) @@
    ("Berlin"  :> [lat_min |-> 52338, lat_max |-> 52675,
                   lon_min |-> 13088, lon_max |-> 13761]) @@
    ("Hamburg" :> [lat_min |-> 53395, lat_max |-> 53703,
                   lon_min |-> 9732, lon_max |-> 10271])

\* Application.mnc_options
mnc_options ==
    ("Telekom" :> <<1, 6>>) @@
    ("Vodafone" :> <<2, 4, 9>>) @@
    ("Telefonica" :> <<3, 5, 7, 8, 11, 77>>)

\* Application.region_options
region_options == <<"München", "Berlin", "Hamburg">>

\* DataProcessorInit with a default region in place of the error
DataProcessorInitDefault(region_name) ==
    IF region_name \in DOMAIN REGION_BOUNDS
    THEN [ok |-> TRUE, bounds |-> REGION_BOUNDS[region_name], err |-> NoError]
    ELSE [ok |-> TRUE, bounds |-> REGION_BOUNDS["München"], err |-> NoError]

\* DataProcessor.__init__: the bounds of a registered region, or ValueError
\* with the requested name and the registered names
DataProcessorInit(region_name) ==
    IF region_name \in DOMAIN REGION_BOUNDS
    THEN [ok |-> TRUE, bounds |-> REGION_BOUNDS[region_name], err |-> NoError]
    ELSE [ok |-> FALSE, bounds |-> NoBounds,
          err |-> [type |-> "ValueError",
                   msg |-> <<"unknown region: ", region_name,
                             ". available options: ", RegionNames>>]]

-----------------------------------------------------------------------------
(* DataProcessor: the stages. *)

Columns14 ==
    <<"radio", "mcc", "net", "area", "cell", "unit", "lon", "lat", "range",
      "samples", "changeable", "created", "updated", "averageSignal">>

columns_to_keep ==
    <<"lon", "lat", "mcc", "range", "net", "cell", "averageSignal">>

\* pd.read_csv(file_path) with its defaults: the first line is taken as the
\* column labels, the remaining lines are the rows, labelled 0, 1, ...
read_csv(file) ==
    IF ~file.ok \/ Len(file.lines) = 0
    THEN [ok |-> FALSE, df |-> None]
    ELSE [ok |-> TRUE,
          df |-> Frame(file.lines[1],
                       [i \in 1..(Len(file.lines) - 1) |-> i - 1],
                       Tail(file.lines))]

\* add_header that names the first 14 columns of a wider frame
add_header_zip(d) ==
    IF Len(d.columns) < Len(Columns14)
    THEN [ok |-> FALSE, df |-> d,
          err |-> [type |-> "ValueError",
                   msg |-> <<"Length mismatch: Expected axis has ",
                             Len(d.columns), " elements, new values have ",
                             Len(Columns14), " elements">>]]
    ELSE [ok |-> TRUE, df |-> Frame(Columns14, d.index, d.rows),
          err |-> NoError]

\* df.columns = columns: pandas raises ValueError on a length mismatch
add_header(d) ==
    IF Len(d.columns) # Len(Columns14)
    THEN [ok |-> FALSE, df |-> d,
          err |-> [type |-> "ValueError",
                   msg |-> <<"Length mismatch: Expected axis has ",
                             Len(d.columns), " elements, new values have ",
                             Len(Columns14), " elements">>]]
    ELSE [ok |-> TRUE, df |-> Frame(Columns14, d.index, d.rows),
          err |-> NoError]

\* df.dropna()
HasNoNaN(r) == \A j \in DOMAIN r : r[j] # NaN
remove_empty_rows(d) ==
    Take(d, Mask([i \in DOMAIN d.rows |-> HasNoNaN(d.rows[i])], 1))

\* df.drop_duplicates(): the first occurrence of every row is kept
RECURSIVE FirstOccurrences(_, _)
FirstOccurrences(rows, i) ==
    IF i > Len(rows) THEN <<>>
    ELSE (IF \E j \in 1..(i - 1) : rows[j] = rows[i] THEN <<>> ELSE <<i>>)
         \o FirstOccurrences(rows, i + 1)
remove_duplicates(d) == Take(d, FirstOccurrences(d.rows, 1))

\* filter_region with the northern bound open
filter_region_open(d, bounds) ==
    LET lat == Col(d, "lat")
        lon == Col(d, "lon")
        Keep(r) == /\ r[lat] >= bounds.lat_min
                   /\ r[lat] < bounds.lat_max
                   /\ r[lon] >= bounds.lon_min
                   /\ r[lon] <= bounds.lon_max
    IN  Take(d, Mask([i \in DOMAIN d.rows |-> Keep(d.rows[i])], 1))

filter_region(d, bounds) ==
    LET lat == Col(d, "lat")
        lon == Col(d, "lon")
        Keep(r) == /\ r[lat] >= bounds.lat_min
                   /\ r[lat] <= bounds.lat_max
                   /\ r[lon] >= bounds.lon_min
                   /\ r[lon] <= bounds.lon_max
    IN  Take(d, Mask([i \in DOMAIN d.rows |-> Keep(d.rows[i])], 1))

filter_for_mcc_262(d) ==
    LET m == Col(d, "mcc")
        Keep(r) == r[m] = 262
    IN  Take(d, Mask([i \in DOMAIN d.rows |-> Keep(d.rows[i])], 1))

filter_relevant_columns(d) ==
    Frame(columns_to_keep, d.index,
          [i \in DOMAIN d.rows |->
              [k \in DOMAIN columns_to_keep |->
                  d.rows[i][Col(d, columns_to_keep[k])]]])

\* Series.isin(values)
isin(v, values) == \E k \in DOMAIN values : values[k] = v

filter_for_mnc(d, codes) ==
    LET n == Col(d, "net")
        Keep(r) == isin(r[n], codes)
    IN  Take(d, Mask([i \in DOMAIN d.rows |-> Keep(d.rows[i])], 1))

\* to_csv without the row labels (index=False)
to_csv_no_index(d) ==
    [exists |-> TRUE, ok |-> TRUE,
     lines |-> <<d.columns>> \o [i \in DOMAIN d.rows |-> d.rows[i]]]

\* df_final.to_csv("final_dataset.csv") with its defaults: a header line
\* (an empty label for the index, then the column labels), then every row
\* behind its row label
to_csv(d) ==
    [exists |-> TRUE, ok |-> TRUE,
     lines |-> <<(<<"">> \o d.columns)>> \o
               [i \in DOMAIN d.rows |-> <<d.index[i]>> \o d.rows[i]]]

\* the outcome of a rendering call: the files it saved, in order, and the
\* exception that left it
Saved(files) == [written |-> files, raised |-> NoError]

\* generate_heatmap without the check for an empty frame
generate_heatmap_unguarded(d, output_file) == Saved(<<output_file>>)

\* HeatmapGenerator.generate_heatmap: nothing is saved for None or for an
\* empty frame, and the call returns
generate_heatmap(d, output_file) ==
    IF d.isNone \/ Len(d.rows) = 0 THEN Saved(<<>>) ELSE Saved(<<output_file>>)

\* HeatmapGenerator.generate_circle_heatmap: no check of df; df.iterrows()
\* raises AttributeError for None before base_map.save, the map is saved for
\* any frame, an empty one too
generate_circle_heatmap(d, output_file) ==
    IF d.isNone
    THEN [written |-> <<>>,
          raised |-> [type |-> "AttributeError",
                      msg |-> <<"'NoneType' object has no attribute 'iterrows'">>]]
    ELSE Saved(<<output_file>>)

\* DataProcessor.generate_heatmaps: generate_heatmap, then
\* generate_circle_heatmap; the files saved and the exception that left it
generate_heatmaps(d) ==
    LET heat == generate_heatmap(d, "../heatmaps/new_heatmap.html")
        circle == generate_circle_heatmap(d, "../heatmaps/new_circle_heatmap.html")
    IN  [written |-> heat.written \o circle.written, raised |-> circle.raised]

\* what a stage logs (before, after) and what it hands to the next stage
Stage(name, in, out) ==
    [stage |-> name, before |-> Len(in.rows), after |-> Len(out.rows),
     out |-> out]

\* the value of a call: Returned(v), or NotReturned when an exception left it
Returned(v) == [set |-> TRUE, value |-> v]
NotReturned == [set |-> FALSE, value |-> None]

\* DataProcessor.load_and_clean_data(file_path) from read_csv to the end of
\* filter_for_mnc, for the file at file_path:
\*   df        the frame read_csv gave, with the header once assigned
\*   stages    the stages that ran, in order (the last one holds df_final)
\*   raised    the exception that left the function
\*   returned  the value of the call when it ended here
load_and_clean_data(file, bounds, codes) ==
    LET loaded == read_csv(file) IN
    IF ~loaded.ok
    THEN \* except Exception: logger.error(...); return None
         [df |-> None, stages |-> <<>>, load_failed |-> TRUE,
          raised |-> NoError, returned |-> Returned(None)]
    ELSE
    LET headed == add_header(loaded.df) IN
    IF ~headed.ok
    THEN [df |-> loaded.df, stages |-> <<>>, load_failed |-> FALSE,
          raised |-> headed.err, returned |-> NotReturned]
    ELSE
    LET df_with_header == headed.df
        df_cleaned == remove_empty_rows(df_with_header)
        df_deduped == remove_duplicates(df_cleaned)
        df_region == filter_region(df_deduped, bounds)
        df_region_mcc == filter_for_mcc_262(df_region)
        df_relevant_columns == filter_relevant_columns(df_region_mcc)
        df_final == filter_for_mnc(df_relevant_columns, codes)
    IN  [df |-> df_with_header,
         stages |->
            <<Stage("remove_empty_rows", df_with_header, df_cleaned),
              Stage("remove_duplicates", df_cleaned, df_deduped),
              Stage("filter_region", df_deduped, df_region),
              Stage("filter_for_mcc_262", df_region, df_region_mcc),
              Stage("filter_relevant_columns", df_region_mcc,
                    df_relevant_columns),
              Stage("filter_for_mnc", df_relevant_columns, df_final)>>,
         load_failed |-> FALSE,
         raised |-> NoError,
         returned |-> NotReturned]

\* the frame the last stage handed on (df_final)
DfFinal(ss) == ss[Len(ss)].out

-----------------------------------------------------------------------------
(* FileManager and HeatmapGenerator.generate_difference_heatmap. *)

\* a projected frame whose cell column has the given dtype: int64, or
\* float64 when the column came from a file with missing cells
DFrame(rows, dtype) ==
    [columns |-> columns_to_keep,
     index |-> [i \in DOMAIN rows |-> i - 1],
     rows |-> rows, isNone |-> FALSE, cell_dtype |-> dtype]

\* FileManager.load_previous_snapshot(file_path): the frame read from the
\* snapshot, None when the file is not found
load_previous_snapshot(snapshot) ==
    IF ~snapshot.exists THEN None ELSE snapshot.frame

Digits == <<"0", "1", "2", "3", "4", "5", "6", "7", "8", "9">>

\* str(n) for n >= 0, as a tuple of characters
RECURSIVE Str(_)
Str(n) ==
    IF n < 10 THEN <<Digits[n + 1]>>
    ELSE Str(n \div 10) \o <<Digits[(n % 10) + 1]>>

\* Series.astype(str) on one value: 7 is "7" in an int64 column and "7.0"
\* in a float64 column
astype_str(v, dtype) ==
    IF dtype = "float64" THEN Str(v) \o <<".", "0">> ELSE Str(v)

\* d["cell"] = d["cell"].astype(str)
CellAsStr(d) ==
    LET c == Col(d, "cell") IN
    [columns |-> d.columns, index |-> d.index,
     rows |-> [i \in DOMAIN d.rows |->
                 [d.rows[i] EXCEPT ![c] = astype_str(@, d.cell_dtype)]],
     isNone |-> FALSE, cell_dtype |-> "object"]

\* NewEntries comparing whole rows instead of the cell column
NewEntriesByRow(new_s, old_s) ==
    LET Keep(r) == \A j \in DOMAIN old_s.rows : old_s.rows[j] # r
        ks == Mask([i \in DOMAIN new_s.rows |-> Keep(new_s.rows[i])], 1)
    IN  [columns |-> new_s.columns,
         index |-> [k \in DOMAIN ks |-> new_s.index[ks[k]]],
         rows |-> [k \in DOMAIN ks |-> new_s.rows[ks[k]]],
         isNone |-> FALSE, cell_dtype |-> "object"]

\* new_df[~new_df["cell"].isin(old_df["cell"])]
NewEntries(new_s, old_s) ==
    LET c == Col(new_s, "cell")
        o == Col(old_s, "cell")
        old_cells == [j \in DOMAIN old_s.rows |-> old_s.rows[j][o]]
        Keep(r) == ~isin(r[c], old_cells)
        ks == Mask([i \in DOMAIN new_s.rows |-> Keep(new_s.rows[i])], 1)
    IN  [columns |-> new_s.columns,
         index |-> [k \in DOMAIN ks |-> new_s.index[ks[k]]],
         rows |-> [k \in DOMAIN ks |-> new_s.rows[ks[k]]],
         isNone |-> FALSE, cell_dtype |-> "object"]

\* HeatmapGenerator.generate_difference_heatmap(new_df, old_df, output_file):
\* new_data, the exception that left the function, the files written
generate_difference_heatmap(new_df, old_df, output_file) ==
    IF old_df.isNone
    THEN \* old_df["cell"] on None
         [new_data |-> None,
          raised |-> [type |-> "TypeError",
                      msg |-> <<"'NoneType' object is not subscriptable">>],
          written |-> <<>>]
    ELSE [new_data |-> NewEntries(CellAsStr(new_df), CellAsStr(old_df)),
          raised |-> NoError,
          written |-> <<output_file>>]

-----------------------------------------------------------------------------
(* The inputs. *)

\* one line of a raw OpenCellID export
Line(mcc, net, area, cell, lon, lat, sig) ==
    <<1, mcc, net, area, cell, 0, lon, lat, 1000, 5, 1, 100, 200, sig>>

RowA == Line(262, 1, 1, 1, 11722, 48061, 0)      \* on a corner of München
RowC == Line(262, 6, 1, 2, 11360, 48248, 0)      \* on the opposite corner
RowD == Line(262, 1, 1, 3, 13400, 52500, 0)      \* Berlin, Telekom
RowE == Line(310, 1, 1, 4, 11500, 48100, 0)      \* another country
RowF == Line(262, 9, 1, 5, 11500, 48100, 0)      \* München, Vodafone
RowG == Line(262, 1, 1, 6, 11500, 48100, NaN)    \* averageSignal missing

RowPool == {RowA, RowC, RowD, RowE, RowF, RowG}

\* the end-to-end scenario: 10 rows, 2 with a missing field, 1 exact
\* duplicate, 3 outside München, 1 of another country, 1 of Vodafone
ScenarioFile ==
    [exists |-> TRUE, ok |-> TRUE,
     lines |-> <<RowC,
                 RowG,
                 Line(262, 1, 1, 7, NaN, 48100, 0),
                 RowA,
                 RowA,
                 RowD,
                 Line(262, 1, 1, 8, 11359, 48100, 0),
                 Line(262, 1, 1, 9, 11500, 48249, 0),
                 RowE,
                 RowF>>]

SeqsUpTo(S, n) == UNION {[1..k -> S] : k \in 0..n}

\* a line of 13 and a line of 15 fields
Short(r) == SubSeq(r, 1, 13)
Long(r) == r \o <<0>>

RawFiles ==
    {[exists |-> TRUE, ok |-> TRUE, lines |-> ls] : ls \in SeqsUpTo(RowPool, MaxRows)}
    \cup {[exists |-> TRUE, ok |-> TRUE, lines |-> <<Short(RowA), Short(RowC)>>],
          [exists |-> TRUE, ok |-> TRUE, lines |-> <<Long(RowA), Long(RowC)>>],
          [exists |-> TRUE, ok |-> FALSE, lines |-> <<>>],
          ScenarioFile}

\* the region names a caller may pass: the registered ones and another
RegionInputs == Range(region_options) \cup {"Köln"}

\* the providers the dropdown offers
ProviderInputs == DOMAIN mnc_options

\* rows of a projected frame: lon, lat, mcc, range, net, cell, averageSignal
Projected(cell, sig) == <<11500, 48100, 262, 1000, 1, cell, sig>>

DiffPool == {Projected(1, 0), Projected(1, 5), Projected(2, 0), Projected(12, 0)}

DiffFrames ==
    {DFrame(rows, t) : rows \in SeqsUpTo(DiffPool, MaxDiffRows),
                       t \in {"int64", "float64"}}

\* the previous snapshot: not there, or a file holding a frame
Snapshots ==
    {[exists |-> FALSE, frame |-> None]} \cup
    {[exists |-> TRUE, frame |-> f] : f \in DiffFrames}

-----------------------------------------------------------------------------
(* The handler Application.on_new_file_drop and the pipeline it runs. *)

Init ==
    /\ pc = "idle"
    /\ source = "none"
    /\ src_file = NoFile
    /\ selected_mnc = "Telekom"
    /\ region = ""
    /\ region_bounds = NoBounds
    /\ mnc = <<>>
    /\ provider = NoObject
    /\ df = None
    /\ stages = <<>>
    /\ load_failed = FALSE
    /\ raised = NoError
    /\ returned = NotReturned
    /\ written = <<>>
    /\ fs_final = NoFile
    /\ d_new = None
    /\ d_old = None
    /\ new_data = None

DiffVars == <<d_new, d_old, new_data>>
Config == <<region, region_bounds, mnc, provider>>
RunVars == <<df, stages, load_failed, returned, written>>

\* the user picks a provider in the dropdown (no handler is running)
SelectMnc ==
    /\ pc = "idle"
    /\ \E p \in ProviderInputs :
         /\ p # selected_mnc
         /\ selected_mnc' = p
    /\ UNCHANGED <<pc, source, src_file, raised, fs_final>>
    /\ UNCHANGED Config
    /\ UNCHANGED RunVars
    /\ UNCHANGED DiffVars

\* on_new_file_drop up to and including DataProcessor(region_name=region,
\* mnc=mnc, provider=self.selected_mnc): mnc is looked up under the string
\* the dropdown holds, provider is the StringVar object
Drop(file, src, region_name) ==
    /\ pc = "idle"
    /\ source' = src
    /\ src_file' = file
    /\ region' = region_name
    /\ LET c == DataProcessorInit(region_name) IN
         IF c.ok
         THEN /\ region_bounds' = c.bounds
              /\ mnc' = mnc_options[selected_mnc]
              /\ provider' = StringVarSelectedMnc
              /\ raised' = NoError
              /\ pc' = "load_and_clean_data"
         ELSE /\ UNCHANGED <<region_bounds, mnc, provider>>
              /\ raised' = c.err
              /\ pc' = "done"
    /\ UNCHANGED RunVars
    /\ UNCHANGED <<selected_mnc, fs_final>>
    /\ UNCHANGED DiffVars

\* a raw export is dropped
DropRaw ==
    /\ pc = "idle"
    /\ \E file \in RawFiles, r \in RegionInputs :
        Drop(file, "raw", r)

\* the file the pipeline saved is dropped
DropFinal ==
    /\ pc = "idle"
    /\ fs_final.exists
    /\ \E r \in RegionInputs :
        Drop(fs_final, "final_dataset.csv", r)

\* data_processor.load_and_clean_data(new_dataset_path), up to df_final
LoadAndCleanData ==
    /\ pc = "load_and_clean_data"
    /\ LET run == load_and_clean_data(src_file, region_bounds, mnc) IN
         /\ df' = run.df
         /\ stages' = run.stages
         /\ load_failed' = run.load_failed
         /\ raised' = run.raised
         /\ returned' = run.returned
         /\ pc' = IF run.stages = <<>> THEN "done" ELSE "to_csv"
    /\ UNCHANGED <<source, src_file, selected_mnc, written, fs_final>>
    /\ UNCHANGED Config
    /\ UNCHANGED DiffVars

\* the rest of load_and_clean_data: df_final.to_csv("final_dataset.csv"),
\* self.generate_heatmaps(df_final), and the end of the body without a
\* return statement
SaveAndRender ==
    /\ pc = "to_csv"
    /\ fs_final' = to_csv(DfFinal(stages))
    /\ LET rendered == generate_heatmaps(DfFinal(stages)) IN
         /\ written' = <<"final_dataset.csv">> \o rendered.written
         /\ raised' = rendered.raised
         /\ returned' = IF rendered.raised = NoError THEN Returned(None)
                                                     ELSE NotReturned
    /\ pc' = "done"
    /\ UNCHANGED <<source, src_file, selected_mnc, df, stages, load_failed>>
    /\ UNCHANGED Config
    /\ UNCHANGED DiffVars

\* generate_difference_heatmap on a new frame and the previous snapshot as
\* load_previous_snapshot gives it
GenerateDifferenceHeatmap ==
    /\ pc = "idle"
    /\ \E new_df \in DiffFrames, snapshot \in Snapshots :
         LET old_df == load_previous_snapshot(snapshot)
             res == generate_difference_heatmap(new_df, old_df,
                                                "difference_heatmap.html")
         IN  /\ d_new' = new_df
             /\ d_old' = old_df
             /\ new_data' = res.new_data
             /\ raised' = res.raised
             /\ written' = res.written
    /\ pc' = "diff_done"
    /\ UNCHANGED <<source, src_file, selected_mnc, df, stages, load_failed,
                   returned, fs_final>>
    /\ UNCHANGED Config

\* the handler is over: its locals and the DataProcessor are gone, the
\* file final_dataset.csv stays
Return ==
    /\ pc \in {"done", "diff_done"}
    /\ pc' = "idle"
    /\ source' = "none"
    /\ src_file' = NoFile
    /\ region' = ""
    /\ region_bounds' = NoBounds
    /\ mnc' = <<>>
    /\ provider' = NoObject
    /\ df' = None
    /\ stages' = <<>>
    /\ load_failed' = FALSE
    /\ raised' = NoError
    /\ returned' = NotReturned
    /\ written' = <<>>
    /\ d_new' = None
    /\ d_old' = None
    /\ new_data' = None
    /\ UNCHANGED <<selected_mnc, fs_final>>

\* the pipeline behind the GUI
Next ==
    \/ SelectMnc
    \/ DropRaw
    \/ DropFinal
    \/ LoadAndCleanData
    \/ SaveAndRender
    \/ Return

Spec == Init /\ [][Next]_vars

\* the snapshot comparison, which the GUI does not call
NextDiff ==
    \/ GenerateDifferenceHeatmap
    \/ Return

SpecDiff == Init /\ [][NextDiff]_vars

-----------------------------------------------------------------------------
(* The properties. *)

Registered == {"München", "Berlin", "Hamburg"}

\* the number of positions of K up to i
Rank(K, i) == Cardinality({x \in K : x <= i})

\* out holds exactly the elements of s at the positions K, in the order of s
SubseqAt(s, K, out) ==
    /\ Len(out) = Cardinality(K)
    /\ \A i \in K : out[Rank(K, i)] = s[i]

\* the pipeline got past header assignment and ran its stages
Cleaned == pc \in {"to_csv", "done"} /\ stages # <<>>

\* C1 (as stated): after generate_difference_heatmap on a new and an old
\* frame, new_data holds exactly the rows of the new frame that no row of the
\* old frame equals in all 7 fields, in order and with their multiplicity
\* (the cell column in its string form).
C1_Original ==
    pc = "diff_done" /\ ~d_old.isNone =>
        LET c == Col(d_new, "cell")
            K == {i \in DOMAIN d_new.rows :
                    \A j \in DOMAIN d_old.rows : d_old.rows[j] # d_new.rows[i]}
            InStr == [i \in DOMAIN d_new.rows |->
                        [d_new.rows[i] EXCEPT
                            ![c] = astype_str(@, d_new.cell_dtype)]]
        IN  /\ raised = NoError
            /\ SubseqAt(InStr, K, new_data.rows)

\* C1 (amended): after generate_difference_heatmap on a new and an old frame,
\* new_data holds exactly the rows of the new frame whose cell, as a string,
\* is the cell of no old row as a string (the same number in a column of the
\* same dtype), whatever the other fields hold; the rows keep their order,
\* their multiplicity and their labels, and their cell is the string.
C1_DiffByCell ==
    pc = "diff_done" /\ ~d_old.isNone =>
        LET c == Col(d_new, "cell")
            K == {i \in DOMAIN d_new.rows :
                    \A j \in DOMAIN d_old.rows :
                        ~(/\ d_old.rows[j][c] = d_new.rows[i][c]
                          /\ d_old.cell_dtype = d_new.cell_dtype)}
            InStr == [i \in DOMAIN d_new.rows |->
                        [d_new.rows[i] EXCEPT
                            ![c] = astype_str(@, d_new.cell_dtype)]]
        IN  /\ raised = NoError
            /\ SubseqAt(InStr, K, new_data.rows)
            /\ SubseqAt(d_new.index, K, new_data.index)

\* a new row with the cell of an old row and another averageSignal was
\* compared and left out
C1_Witness ==
    /\ pc = "diff_done"
    /\ ~d_old.isNone
    /\ d_old.cell_dtype = d_new.cell_dtype
    /\ Len(d_new.rows) = 2
    /\ Len(new_data.rows) = 1
    /\ \E i \in DOMAIN d_new.rows, j \in DOMAIN d_old.rows :
         /\ d_new.rows[i][6] = d_old.rows[j][6]
         /\ d_new.rows[i][7] # d_old.rows[j][7]
         /\ \A k \in DOMAIN d_old.rows : d_old.rows[k] # d_new.rows[i]

\* C2 (as stated): with no previous snapshot (load_previous_snapshot gave
\* None) generate_difference_heatmap ends without an error and new_data is
\* the new frame, row for row.
C2_Original ==
    pc = "diff_done" /\ d_old.isNone =>
        /\ raised = NoError
        /\ ~new_data.isNone
        /\ Len(new_data.rows) = Len(d_new.rows)

\* the rows of the raw lines that pass every predicate of the chain, first
\* occurrences only
PassAll(r, bounds, codes) ==
    /\ \A j \in DOMAIN r : r[j] # NaN
    /\ r[8] \in bounds.lat_min..bounds.lat_max
    /\ r[7] \in bounds.lon_min..bounds.lon_max
    /\ r[2] = 262
    /\ r[3] \in Range(codes)

Project(r) == <<r[7], r[8], r[2], r[9], r[3], r[5], r[14]>>

\* C3 (as stated): for a raw file of 14 columns, load_and_clean_data returns
\* to its caller the projection (lon, lat, mcc, range, net, cell,
\* averageSignal) of the lines that pass all predicates, first occurrences
\* only, in input order.
C3_Original ==
    pc = "done" /\ source = "raw" /\ ~load_failed /\ raised = NoError =>
        LET ls == src_file.lines
            K == {i \in DOMAIN ls :
                    /\ PassAll(ls[i], region_bounds, mnc)
                    /\ \A j \in 1..(i - 1) : ls[j] # ls[i]}
        IN  /\ returned.set
            /\ ~returned.value.isNone
            /\ returned.value.columns = columns_to_keep
            /\ SubseqAt([i \in DOMAIN ls |-> Project(ls[i])], K,
                        returned.value.rows)

\* C4 (as stated): every line of a header-less source of n lines is a row of
\* the frame that enters null removal.
C4_Original ==
    Cleaned /\ source = "raw" =>
        /\ stages[1].before = Len(src_file.lines)
        /\ df.rows = src_file.lines

\* C5 (as stated): a load failure runs no stage, writes nothing, and gives
\* the caller an outcome that no successful run gives.
C5_Original ==
    pc = "done" /\ raised = NoError =>
        /\ load_failed => stages = <<>> /\ written = <<>>
        /\ load_failed <=> (returned = Returned(None))

\* C6: when the frame read from the file does not have 14 columns,
\* load_and_clean_data ends at header assignment with the length-mismatch
\* ValueError: no stage runs, nothing is written, final_dataset.csv stays as
\* it was and the call returns no value.
C6_SchemaMismatch ==
    [][(/\ pc = "load_and_clean_data"
        /\ src_file.ok
        /\ Len(src_file.lines) > 0
        /\ Len(src_file.lines[1]) # 14)
       => (/\ pc' = "done"
           /\ raised'.type = "ValueError"
           /\ raised'.msg[2] = Len(src_file.lines[1])
           /\ raised'.msg[4] = 14
           /\ ~load_failed'
           /\ stages' = <<>>
           /\ written' = <<>>
           /\ fs_final' = fs_final
           /\ ~returned'.set)]_vars

\* a raw file whose lines are not 14 fields wide was read and refused
C6_Witness ==
    /\ pc = "done"
    /\ source = "raw"
    /\ ~df.isNone
    /\ Len(df.columns) # 14
    /\ raised.type = "ValueError"

\* C7: a region name outside München, Berlin, Hamburg ends the handler at
\* the construction with a ValueError naming the requested region and the
\* three registered names, before a file is read; a registered name gives
\* the processor that region's bounds; and nothing after the construction
\* changes the bounds or the operator codes.
C7_Construction ==
    /\ [](pc \in {"load_and_clean_data", "to_csv", "done"} =>
            IF region \in Registered
            THEN /\ region = "München" =>
                      region_bounds = [lat_min |-> 48061, lat_max |-> 48248,
                                       lon_min |-> 11360, lon_max |-> 11722]
                 /\ region = "Berlin" =>
                      region_bounds = [lat_min |-> 52338, lat_max |-> 52675,
                                       lon_min |-> 13088, lon_max |-> 13761]
                 /\ region = "Hamburg" =>
                      region_bounds = [lat_min |-> 53395, lat_max |-> 53703,
                                       lon_min |-> 9732, lon_max |-> 10271]
                 /\ mnc = mnc_options[selected_mnc]
            ELSE /\ pc = "done"
                 /\ raised.type = "ValueError"
                 /\ raised.msg[2] = region
                 /\ raised.msg[4] = <<"München", "Berlin", "Hamburg">>
                 /\ df.isNone
                 /\ ~load_failed
                 /\ stages = <<>>
                 /\ written = <<>>)
    /\ [][pc # "idle" /\ pc' # "idle" =>
            region_bounds' = region_bounds /\ mnc' = mnc]_vars

\* the handler was started with the region Köln and ended at the construction
C7_Witness ==
    /\ pc = "done"
    /\ region = "Köln"
    /\ raised.type = "ValueError"
    /\ src_file.ok

\* C8 (as stated): load_and_clean_data on the file it saved completes and
\* keeps every row of it.
C8_Original ==
    pc = "done" /\ source = "final_dataset.csv" /\ region \in Registered =>
        /\ raised = NoError
        /\ ~load_failed
        /\ stages # <<>>
        /\ Len(DfFinal(stages).rows) = Len(src_file.lines) - 1

\* C8 (amended): load_and_clean_data on the file it saved does not complete:
\* the file has 8 columns (the row label and the 7 projected fields), header
\* assignment raises the length-mismatch ValueError, no stage runs, nothing
\* is written and the saved file stays as it was.  Applying the region, the
\* country and the operator filter again to the frame the pipeline produced
\* removes no row.
C8_RerunFails ==
    /\ pc = "done" /\ source = "final_dataset.csv" /\ region \in Registered =>
        /\ raised.type = "ValueError"
        /\ raised.msg[2] = 8
        /\ stages = <<>>
        /\ written = <<>>
        /\ ~returned.set
        /\ fs_final = src_file
    /\ Cleaned =>
        LET out == DfFinal(stages) IN
        filter_for_mnc(
            filter_for_mcc_262(filter_region(out, region_bounds)), mnc) = out

\* a saved file with rows in it was dropped and refused
C8_Witness ==
    /\ pc = "done"
    /\ source = "final_dataset.csv"
    /\ region \in Registered
    /\ Len(src_file.lines) > 1
    /\ raised.type = "ValueError"

\* C9: the region filter hands on exactly the rows it was given whose lat is
\* in lat_min..lat_max and whose lon is in lon_min..lon_max, both ends
\* included, in order.
C9_RegionInclusive ==
    Cleaned =>
        LET in == stages[2].out
            out == stages[3].out
            K == {i \in DOMAIN in.rows :
                    /\ in.rows[i][8] \in
                         region_bounds.lat_min..region_bounds.lat_max
                    /\ in.rows[i][7] \in
                         region_bounds.lon_min..region_bounds.lon_max}
        IN  /\ stages[3].stage = "filter_region"
            /\ stages[3].before = Len(in.rows)
            /\ SubseqAt(in.rows, K, out.rows)

\* the region filter kept a row on lat_max and lon_min and removed another
C9_Witness ==
    /\ Cleaned
    /\ stages[3].after < stages[3].before
    /\ \E i \in DOMAIN stages[3].out.rows :
         /\ stages[3].out.rows[i][8] = region_bounds.lat_max
         /\ stages[3].out.rows[i][7] = region_bounds.lon_min

\* C10 (as stated): no run of load_and_clean_data writes a file or renders a
\* map, and the finished frame is handed to the caller.
C10_Original ==
    /\ pc \in {"load_and_clean_data", "to_csv", "done"} => written = <<>>
    /\ pc = "done" /\ stages # <<>> =>
         returned.set /\ returned.value = DfFinal(stages)

\* C10 (amended): nothing is written until the operator filter has ended and
\* nothing is written by a run that ends before the stages; a run that
\* reaches the end of the operator filter then itself writes
\* final_dataset.csv (a header line and one line per row), the heat map
\* unless the frame is empty, and the circle map, in this order, and gives
\* the caller None.
C10_SavesAndRenders ==
    /\ pc \in {"load_and_clean_data", "to_csv"} => written = <<>>
    /\ pc = "done" /\ stages = <<>> => written = <<>>
    /\ pc = "done" /\ stages # <<>> =>
         /\ written =
              <<"final_dataset.csv">> \o
              (IF Len(DfFinal(stages).rows) = 0 THEN <<>>
               ELSE <<"../heatmaps/new_heatmap.html">>) \o
              <<"../heatmaps/new_circle_heatmap.html">>
         /\ fs_final.exists
         /\ Len(fs_final.lines) = Len(DfFinal(stages).rows) + 1
         /\ returned = Returned(None)

\* a run whose result is empty saved the dataset and the circle map only
C10_Witness ==
    /\ pc = "done"
    /\ stages # <<>>
    /\ stages[1].before > 0
    /\ Len(DfFinal(stages).rows) = 0
    /\ Len(written) = 2

====
